---- MODULE Spec2Model ----
(***************************************************************************)
(* random_voronoi (src/main.py): random seed points in a size x size       *)
(* square, then every pixel coloured by its nearest seed under the L1      *)
(* metric, either by a linear scan (use_brute) or through                  *)
(* scipy.spatial.kdtree.KDTree(sources, 8).query(..., p=1).                *)
(*                                                                         *)
(* Seed labels are 0-based as in the source; sources[i + 1] is seed i.     *)
(* Coordinates handled by the KDTree are multiplied by Scale so that the   *)
(* midpoints (maxval + minval) / 2 the tree computes stay integers.        *)
(***************************************************************************)
EXTENDS Integers, Sequences, FiniteSets, TLC

\* ------------------------------------------------------------------ bounds
MaxSize == 3
MaxN == 10
MaxFree == 2
MaxIterN == 1
MaxColourN == 260

\* ------------------------------------------------------- program constants
LeafSize == 8
MaxColour == 255
INF == -1

VARIABLES size, num_points, use_brute, sources, im, im2, sources_kd, it,
          visits, assigned, pc, cn, ci, cval

vars == <<size, num_points, use_brute, sources, im, im2, sources_kd, it,
          visits, assigned, pc, cn, ci, cval>>

\* ----------------------------------------------------------------- helpers
Abs(x) == IF x < 0 THEN -x ELSE x

Max2(a, b) == IF a >= b THEN a ELSE b

RECURSIVE Pow2(_)
Pow2(k) == IF k <= 0 THEN 1 ELSE 2 * Pow2(k - 1)

RECURSIVE Gcd(_, _)
Gcd(a, b) == IF b = 0 THEN a ELSE Gcd(b, a % b)

\* A float held in an image array, kept exactly as a fraction in lowest terms.
Frac(num, den) == LET g == Gcd(num, den) IN <<num \div g, den \div g>>

Cells(s) == (0 .. s - 1) \X (0 .. s - 1)

\* np.zeros((size, size)) followed by "im[source] = 255" for every source.
MarkSources(s, srcs) ==
    [loc \in Cells(s) |->
        IF \E k \in 1 .. Len(srcs) : srcs[k] = loc
        THEN Frac(MaxColour, 1) ELSE Frac(0, 1)]

\* scipy.spatial.distance.cityblock on two integer pairs.
cityblock(u, v) == Abs(u[1] - v[1]) + Abs(u[2] - v[2])

\* Faulty variant: the quotient 255 / len(sources) truncated to an integer.
ColourFloor(n, i) == Frac((MaxColour \div n) * i, 1)

\* "(255 / len(sources)) * i": true division, so the value is 255 * i / n (the
\* rounding of the two float operations is far below the gap 255 / n between
\* two colours and is left out).
Colour(n, i) == Frac(MaxColour * i, n)

\* ------------------------------------------------------- the seed sequences
\* The sequences np.random.randint can produce are all of (Cells)^n.  The
\* model draws from three families: every sequence of at most MaxFree
\* seeds; for every n, n seeds at one point, or at one point but for the
\* first or the last seed (which gives the KDTree more than LeafSize seeds
\* to split); and, for LeafSize + 2 seeds, two single seeds followed by
\* LeafSize seeds at one point (a tree with an inner node on one side of the
\* root and a single seed on the other).
Repeat(p, a) == [k \in 1 .. a |-> p]

FreeSeqs(s, n) == [1 .. n -> Cells(s)]

TwoRunSeqs(s, n) ==
    { Repeat(p, a) \o Repeat(q, n - a) :
        p \in Cells(s), q \in Cells(s), a \in {1, n - 1, n} \cap (1 .. n) }

BulkSeqs(s, n) ==
    { <<r, p>> \o Repeat(q, n - 2) : r \in Cells(s), p \in Cells(s), q \in Cells(s) }

SeedSeqs(s, n) ==
    IF n = 0 THEN { <<>> }
    ELSE (IF n <= MaxFree THEN FreeSeqs(s, n) ELSE {})
         \cup TwoRunSeqs(s, n)
         \cup (IF n = LeafSize + 2 THEN BulkSeqs(s, n) ELSE {})

\* -------------------------------------------------------------- brute force
\* Lines 67-71: the scan over range(len(sources)) for one pixel.  st holds
\* min_dist and the value of im2[loc]; the scan returns st after seed i..n-1.
\* Faulty variant: replacement on a tie as well.
BruteTestLe(d, min_dist) == min_dist = INF \/ d <= min_dist

\* "if cityblock(loc, sources[i]) < min_dist", min_dist starting at inf.
BruteTest(d, min_dist) == min_dist = INF \/ d < min_dist

RECURSIVE BruteScan(_, _, _, _)
BruteScan(srcs, loc, i, st) ==
    IF i >= Len(srcs) THEN st
    ELSE LET d == cityblock(loc, srcs[i + 1])
         IN IF BruteTest(d, st.min_dist)
            THEN BruteScan(srcs, loc, i + 1,
                           [min_dist |-> d, val |-> Colour(Len(srcs), i),
                            label |-> i, wrote |-> TRUE])
            ELSE BruteScan(srcs, loc, i + 1, st)

BruteCell(srcs, loc, old) ==
    BruteScan(srcs, loc, 0,
              [min_dist |-> INF, val |-> old, label |-> -1, wrote |-> FALSE])

\* ------------------------------------------------------------------ KDTree
\* Line 43, KDTree(sources, 8): the sliding-midpoint tree of
\* scipy.spatial.kdtree.  A leaf holds seed labels in ascending order; an
\* inner node holds split_dim, split and the two subtrees.
Scale == Pow2(Max2(MaxN - LeafSize, 0))

Coord(srcs, i, d) == srcs[i + 1][d + 1] * Scale

SetMax(S) == CHOOSE m \in S : \A o \in S : o <= m

SetMin(S) == CHOOSE m \in S : \A o \in S : m <= o

\* np.amax(data, axis=0) and np.amin(data, axis=0) as pairs.
DataMaxes(srcs) ==
    [d \in 1 .. 2 |-> SetMax({ Coord(srcs, i, d - 1) : i \in 0 .. Len(srcs) - 1 })]

DataMins(srcs) ==
    [d \in 1 .. 2 |-> SetMin({ Coord(srcs, i, d - 1) : i \in 0 .. Len(srcs) - 1 })]

leafnode(idx) == [leaf |-> TRUE, idx |-> idx]

innernode(split_dim, split, less, greater) ==
    [leaf |-> FALSE, split_dim |-> split_dim, split |-> split,
     less |-> less, greater |-> greater]

\* idx[np.nonzero(test(data))[0]]: the labels of idx passing a test, in order.
RECURSIVE Keep(_, _, _)
Keep(idx, k, pass) ==
    IF k > Len(idx) THEN <<>>
    ELSE (IF idx[k] \in pass THEN <<idx[k]>> ELSE <<>>) \o Keep(idx, k + 1, pass)

\* d = np.argmax(maxes - mins): the first axis of greatest extent.
SplitDim(maxes, mins) ==
    IF maxes[1] - mins[1] >= maxes[2] - mins[2] THEN 0 ELSE 1

\* Faulty variant: the midpoint only, and strict on both sides.
PartitionStrict(srcs, idx, d, maxval, minval) ==
    LET labels == { idx[k] : k \in 1 .. Len(idx) }
        mid == (maxval + minval) \div 2
    IN [split |-> mid,
        less |-> Keep(idx, 1, { i \in labels : Coord(srcs, i, d) < mid }),
        greater |-> Keep(idx, 1, { i \in labels : Coord(srcs, i, d) > mid })]

\* The split value and the two index lists of KDTree.__build for one node:
\* the midpoint of the cell, slid to the least value when nothing is at or
\* below it, to the greatest when nothing is above it, and the last point
\* split off when all values are equal.
Partition(srcs, idx, d, maxval, minval) ==
    LET labels == { idx[k] : k \in 1 .. Len(idx) }
        data(i) == Coord(srcs, i, d)
        vals == { data(i) : i \in labels }
        mid == (maxval + minval) \div 2
        p1 == [split |-> mid,
               less |-> { i \in labels : data(i) <= mid },
               greater |-> { i \in labels : data(i) > mid }]
        lo == SetMin(vals)
        p2 == IF p1.less = {}
              THEN [split |-> lo,
                    less |-> { i \in labels : data(i) <= lo },
                    greater |-> { i \in labels : data(i) > lo }]
              ELSE p1
        hi == SetMax(vals)
        p3 == IF p2.greater = {}
              THEN [split |-> hi,
                    less |-> { i \in labels : data(i) < hi },
                    greater |-> { i \in labels : data(i) >= hi }]
              ELSE p2
        p4 == IF p3.less = {}
              THEN [split |-> data(idx[1]),
                    less |-> { idx[k] : k \in 1 .. Len(idx) - 1 },
                    greater |-> { idx[Len(idx)] }]
              ELSE p3
    IN [split |-> p4.split,
        less |-> Keep(idx, 1, p4.less),
        greater |-> Keep(idx, 1, p4.greater)]

RECURSIVE build(_, _, _, _)
build(srcs, idx, maxes, mins) ==
    IF Len(idx) <= LeafSize THEN leafnode(idx)
    ELSE LET d == SplitDim(maxes, mins)
             maxval == maxes[d + 1]
             minval == mins[d + 1]
         IN IF maxval = minval THEN leafnode(idx)
            ELSE LET p == Partition(srcs, idx, d, maxval, minval)
                     lessmaxes == [maxes EXCEPT ![d + 1] = p.split]
                     greatermins == [mins EXCEPT ![d + 1] = p.split]
                 IN innernode(d, p.split,
                              build(srcs, p.less, lessmaxes, mins),
                              build(srcs, p.greater, maxes, greatermins))

NoTree == [built |-> FALSE, maxes |-> <<0, 0>>, mins |-> <<0, 0>>,
           tree |-> leafnode(<<>>), ids |-> << <<>> >>]

\* The paths (0 = less, 1 = greater) from a node to the leaves below it.
RECURSIVE LeafPaths(_, _)
LeafPaths(node, path) ==
    IF node.leaf THEN { path }
    ELSE LeafPaths(node.less, Append(path, 0))
         \cup LeafPaths(node.greater, Append(path, 1))

\* The orders id() can put the leaves in.
IdOrders(tree) ==
    LET L == LeafPaths(tree, <<>>)
    IN { o \in [1 .. Cardinality(L) -> L] :
            \A a, b \in 1 .. Cardinality(L) : a # b => o[a] # o[b] }

\* The trees KDTree(sources, 8) can be: one tree, with any order of ids.
KDTree(srcs) ==
    LET maxes == DataMaxes(srcs)
        mins == DataMins(srcs)
        tree == build(srcs, [k \in 1 .. Len(srcs) |-> k - 1], maxes, mins)
    IN { [built |-> TRUE, maxes |-> maxes, mins |-> mins, tree |-> tree,
          ids |-> o] : o \in IdOrders(tree) }

\* The node reached from the root by a path of 0 (less) and 1 (greater).
RECURSIVE NodeAt(_, _)
NodeAt(node, path) ==
    IF path = <<>> THEN node
    ELSE NodeAt(IF Head(path) = 0 THEN node.less ELSE node.greater, Tail(path))

\* --------------------------------------------------------- KDTree.query
\* Line 52, sources_kd.query([loc], p=1)[1][0].  nb is the one-element
\* neighbours heap: the label found and distance_upper_bound.
BelowBound(d, bound) == bound = INF \/ d < bound

\* The brute-force pass over a leaf: "if ds[i] < distance_upper_bound".
RECURSIVE LeafScan(_, _, _, _, _)
LeafScan(srcs, x, idx, k, nb) ==
    IF k > Len(idx) THEN nb
    ELSE LET ds == Scale * cityblock(x, srcs[idx[k] + 1])
         IN IF BelowBound(ds, nb.bound)
            THEN LeafScan(srcs, x, idx, k + 1,
                          [i |-> idx[k], bound |-> ds, pruned |-> nb.pruned])
            ELSE LeafScan(srcs, x, idx, k + 1, nb)

\* Faulty variant: nothing more is visited once a neighbour is known.
TooFarGreedy(min_distance, bound) == bound # INF

\* "if min_distance > distance_upper_bound*epsfac" with eps = 0.

TooFar(min_distance, bound) == bound # INF /\ min_distance > bound

\* heapq order on (min_distance, side_distances, node).  Entries that agree
\* on the first two are ordered by id(node), which the run fixes when the
\* nodes are created: kd.ids lists the leaves in the order their ids make
\* them win such ties (an inner node that ties is expanded first, which
\* changes neither the neighbour nor the bound).
Rank(kd, path) ==
    IF NodeAt(kd.tree, path).leaf
    THEN CHOOSE r \in 1 .. Len(kd.ids) : kd.ids[r] = path
    ELSE 0

Entry(kd, min_distance, side_distances, path) ==
    [md |-> min_distance, sd |-> side_distances, path |-> path,
     id |-> Rank(kd, path)]

EntryLess(a, b) ==
    \/ a.md < b.md
    \/ a.md = b.md /\ a.sd[1] < b.sd[1]
    \/ a.md = b.md /\ a.sd[1] = b.sd[1] /\ a.sd[2] < b.sd[2]
    \/ a.md = b.md /\ a.sd = b.sd /\ a.id < b.id

\* heappop(q).
Smallest(q) == CHOOSE e \in q : \A o \in q : ~EntryLess(o, e)

\* The two heappush calls for the children of an inner node.
Children(kd, node, e, xs, bound) ==
    LET d == node.split_dim
        goLess == xs[d + 1] < node.split
        near == Append(e.path, IF goLess THEN 0 ELSE 1)
        far == Append(e.path, IF goLess THEN 1 ELSE 0)
        sd == [e.sd EXCEPT ![d + 1] = Abs(node.split - xs[d + 1])]
        far_distance == e.md - e.sd[d + 1] + sd[d + 1]
    IN { Entry(kd, e.md, e.sd, near) }
       \cup (IF ~TooFar(far_distance, bound)
             THEN { Entry(kd, far_distance, sd, far) }
             ELSE {})

\* The "while q" loop: nb when it ends.  nb.pruned records that a subtree
\* was left unvisited (the break, or a far child not pushed).
RECURSIVE QueryLoop(_, _, _, _, _)
QueryLoop(kd, srcs, x, q, nb) ==
    IF q = {} THEN nb
    ELSE LET e == Smallest(q)
             node == NodeAt(kd.tree, e.path)
             xs == <<x[1] * Scale, x[2] * Scale>>
         IN IF node.leaf
            THEN QueryLoop(kd, srcs, x, q \ {e}, LeafScan(srcs, x, node.idx, 1, nb))
            ELSE IF TooFar(e.md, nb.bound) THEN [nb EXCEPT !.pruned = TRUE]
            ELSE LET pushed == Children(kd, node, e, xs, nb.bound)
                 IN QueryLoop(kd, srcs, x, (q \ {e}) \cup pushed,
                              IF Cardinality(pushed) < 2
                              THEN [nb EXCEPT !.pruned = TRUE] ELSE nb)

QueryRun(kd, srcs, x) ==
    LET xs == <<x[1] * Scale, x[2] * Scale>>
        side_distances ==
            [d \in 1 .. 2 |-> Max2(0, Max2(xs[d] - kd.maxes[d], kd.mins[d] - xs[d]))]
        min_distance == side_distances[1] + side_distances[2]
    IN QueryLoop(kd, srcs, x,
                 { Entry(kd, min_distance, side_distances, <<>>) },
                 [i |-> -1, bound |-> INF, pruned |-> FALSE])

\* query([loc], p=1)[1][0]: the label found (len(sources) when none).
query(kd, srcs, x) ==
    LET nb == QueryRun(kd, srcs, x)
    IN IF nb.i = -1 THEN Len(srcs) ELSE nb.i

\* ------------------------------------------------------------- np.nditer
\* Faulty variant: finished on reaching the last row.
FinishedEarly(s, pos) == pos[1] >= s - 1

\* C-order multi_index of np.nditer(im, flags=["multi_index"]): finished
\* once the row index has run past the last row; iternext moves along the
\* row and then to the start of the next one.
Finished(s, pos) == pos[1] >= s

\* Faulty variant: down the column first.
IterNextColumnMajor(s, pos) ==
    IF pos[1] + 1 < s THEN <<pos[1] + 1, pos[2]>>
    ELSE IF pos[2] + 1 < s THEN <<0, pos[2] + 1>> ELSE <<s, 0>>

IterNext(s, pos) ==
    IF pos[2] + 1 < s THEN <<pos[1], pos[2] + 1>> ELSE <<pos[1] + 1, 0>>

\* ------------------------------------------------------------ the program
\* pc: "start" (entry of random_voronoi), "kdtree" (line 43 next), "kdloop"
\* and "bruteloop" (the two while loops), "done" (after the plot), "error"
\* (an exception left random_voronoi).  visits and assigned record the cells
\* queried and the cells of im2 written; cn, ci, cval belong to ColourSpec.
Init ==
    /\ size \in 1 .. MaxSize
    /\ num_points \in 0 .. MaxN
    /\ use_brute \in BOOLEAN
    /\ sources = <<>>
    /\ im = [loc \in Cells(size) |-> Frac(0, 1)]
    /\ im2 = [loc \in Cells(size) |-> Frac(0, 1)]
    /\ sources_kd = NoTree
    /\ it = <<0, 0>>
    /\ visits = <<>>
    /\ assigned = {}
    /\ pc = "start"
    /\ cn = 1 /\ ci = 0 /\ cval = Frac(0, 1)

\* Lines 22-36: the random sources and the two images with the seed markers.
GenerateSources ==
    /\ pc = "start"
    /\ \E srcs \in SeedSeqs(size, num_points) :
          /\ sources' = srcs
          /\ im' = MarkSources(size, srcs)
          /\ im2' = MarkSources(size, srcs)
    /\ pc' = IF use_brute THEN "bruteloop" ELSE "kdtree"
    /\ UNCHANGED <<size, num_points, use_brute, sources_kd, it, visits,
                   assigned, cn, ci, cval>>

\* Lines 43-44 with sources: the tree is built and the iterator created.
BuildKDTree ==
    /\ pc = "kdtree"
    /\ Len(sources) > 0
    /\ sources_kd' \in KDTree(sources)
    /\ pc' = "kdloop"
    /\ UNCHANGED <<size, num_points, use_brute, sources, im, im2, it, visits,
                   assigned, cn, ci, cval>>

\* Line 43 without sources: KDTree([]) raises (np.shape of an empty list
\* does not unpack into n, m) and the exception leaves random_voronoi.
BuildKDTreeRaises ==
    /\ pc = "kdtree"
    /\ Len(sources) = 0
    /\ pc' = "error"
    /\ UNCHANGED <<size, num_points, use_brute, sources, im, im2, sources_kd,
                   it, visits, assigned, cn, ci, cval>>

\* Lines 46-53: one pass of the KDTree loop.
KDTreeStep ==
    /\ pc = "kdloop"
    /\ ~Finished(size, it)
    /\ im2' = [im2 EXCEPT ![it] =
                   Colour(Len(sources), query(sources_kd, sources, it))]
    /\ visits' = Append(visits, it)
    /\ assigned' = assigned \cup {it}
    /\ it' = IterNext(size, it)
    /\ UNCHANGED <<size, num_points, use_brute, sources, im, sources_kd, pc,
                   cn, ci, cval>>

\* Lines 61-73: one pass of the brute-force loop.
BruteStep ==
    /\ pc = "bruteloop"
    /\ ~Finished(size, it)
    /\ LET st == BruteCell(sources, it, im2[it])
       IN /\ im2' = [im2 EXCEPT ![it] = st.val]
          /\ assigned' = IF st.wrote THEN assigned \cup {it} ELSE assigned
    /\ visits' = Append(visits, it)
    /\ it' = IterNext(size, it)
    /\ UNCHANGED <<size, num_points, use_brute, sources, im, sources_kd, pc,
                   cn, ci, cval>>

\* Lines 75-93: the loop has finished; timing, the two subplots, savefig.
Plot ==
    /\ pc \in {"kdloop", "bruteloop"}
    /\ Finished(size, it)
    /\ pc' = "done"
    /\ UNCHANGED <<size, num_points, use_brute, sources, im, im2, sources_kd,
                   it, visits, assigned, cn, ci, cval>>

Next ==
    \/ GenerateSources
    \/ BuildKDTree
    \/ BuildKDTreeRaises
    \/ KDTreeStep
    \/ BruteStep
    \/ Plot

Spec == Init /\ [][Next]_vars

\* The same loop for a few seeds only, with the progress a single-threaded
\* run makes: some step is taken while one is possible.
IterInit == Init /\ num_points <= MaxIterN

IterSpec == IterInit /\ [][Next]_vars /\ WF_vars(Next)

\* The colour expression of lines 52 and 70 on its own: every seed count up
\* to MaxColourN, every label below it.
ColourInit ==
    /\ size = 1 /\ num_points = 0 /\ use_brute = TRUE
    /\ sources = <<>>
    /\ im = [loc \in Cells(1) |-> Frac(0, 1)]
    /\ im2 = [loc \in Cells(1) |-> Frac(0, 1)]
    /\ sources_kd = NoTree
    /\ it = <<0, 0>>
    /\ visits = <<>>
    /\ assigned = {}
    /\ pc = "colour"
    /\ cn \in 1 .. MaxColourN
    /\ ci = 0
    /\ cval = Colour(cn, 0)

ColourStep ==
    /\ pc = "colour"
    /\ ci + 1 < cn
    /\ ci' = ci + 1
    /\ cval' = Colour(cn, ci + 1)
    /\ UNCHANGED <<size, num_points, use_brute, sources, im, im2, sources_kd,
                   it, visits, assigned, pc, cn>>

ColourSpec == ColourInit /\ [][ColourStep]_vars

\* ------------------------------------------------------------- properties
Labels == 0 .. Len(sources) - 1

Range(s) == { s[k] : k \in 1 .. Len(s) }

\* The seeds at the least L1 distance from a cell, and the least of them.
Nearest(srcs, loc) ==
    LET dist == [i \in 0 .. Len(srcs) - 1 |-> cityblock(loc, srcs[i + 1])]
        least == SetMin({ dist[i] : i \in 0 .. Len(srcs) - 1 })
    IN { i \in 0 .. Len(srcs) - 1 : dist[i] = least }

LowestNearest(srcs, loc) == SetMin(Nearest(srcs, loc))

\* The cell a state is examined for: the one the last pass wrote (no later
\* pass writes it again, see C7).
Settled == IF visits = <<>> THEN {} ELSE { visits[Len(visits)] }

RowMajor(s) == [k \in 1 .. s * s |-> <<(k - 1) \div s, (k - 1) % s>>]

\* C1: with at least one seed, the grid the KDTree branch ends with equals,
\* cell for cell, the grid the brute-force scan gives for the same seeds.
C1_BranchesAgree ==
    (pc = "done" /\ ~use_brute /\ Len(sources) >= 1) =>
        \A loc \in Cells(size) : im2[loc] = BruteCell(sources, loc, im[loc]).val

\* C2: a brute-force pass leaves the cell with the colour of the smallest
\* index among the seeds at the least L1 distance, and always writes it.
C2_BruteLowestNearest ==
    (use_brute /\ Len(sources) >= 1) =>
        \A loc \in Settled :
            /\ loc \in assigned
            /\ im2[loc] = Colour(Len(sources), LowestNearest(sources, loc))

C2_Witness ==
    /\ use_brute
    /\ pc = "bruteloop"
    /\ \E loc \in Settled :
          /\ Cardinality({ sources[i + 1] : i \in Nearest(sources, loc) }) >= 2
          /\ loc \in assigned
          /\ im2[loc] = Colour(Len(sources), LowestNearest(sources, loc))

\* C3: a KDTree pass leaves the cell with the colour of the smallest index
\* among the seeds at the least L1 distance.
C3_KDTreeLowestNearest ==
    (~use_brute /\ Len(sources) >= 1) =>
        \A loc \in Settled :
            im2[loc] = Colour(Len(sources), LowestNearest(sources, loc))

\* C4: once the loop has ended over at least one seed, every cell has been
\* written and holds the colour of exactly one label in 0 .. N-1.
C4_Totality ==
    (pc = "done" /\ Len(sources) >= 1) =>
        \A loc \in Cells(size) :
            /\ loc \in assigned
            /\ Cardinality({ i \in Labels : im2[loc] = Colour(Len(sources), i) }) = 1

C4_Witness ==
    /\ pc = "done"
    /\ ~use_brute
    /\ size >= 2
    /\ Len(sources) >= 2
    /\ \E loc \in Cells(size) : im[loc] = Frac(MaxColour, 1) /\ im2[loc] # im[loc]
    /\ \E loc \in Cells(size) : im2[loc] # Frac(0, 1)

\* C5: once the loop has ended, the cell at every seed's coordinates holds
\* the colour of the lowest index among the seeds at those coordinates.
C5_SelfIdentity ==
    (pc = "done" /\ Len(sources) >= 1) =>
        \A i \in Labels :
            im2[sources[i + 1]] =
                Colour(Len(sources),
                       SetMin({ j \in Labels : sources[j + 1] = sources[i + 1] }))

\* C6: with no seed the run never queries a cell and never reaches the plot.
C6_EmptyRejected ==
    num_points = 0 => (pc # "done" /\ visits = <<>>)

\* What every state of the loop satisfies: the passes so far are a prefix of
\* the row-major enumeration and the iterator stands on the next cell.
C7_RowMajorInv ==
    /\ Len(visits) <= size * size
    /\ visits = SubSeq(RowMajor(size), 1, Len(visits))
    /\ (pc = "done" => Len(visits) = size * size)
    /\ (pc \in {"kdloop", "bruteloop"} /\ ~Finished(size, it) =>
            Len(visits) < size * size /\ it = RowMajor(size)[Len(visits) + 1])

\* C7: the cells are visited in row-major order, each once, one query per
\* pass; the loop has made size * size passes when it ends, and the run ends
\* (in the plot, or in the KDTree constructor when there is no seed).
C7_RowMajorOnce == []C7_RowMajorInv /\ <>(pc \in {"done", "error"})

C7_Witness ==
    /\ pc = "done"
    /\ size >= 2
    /\ visits = RowMajor(size)
    /\ Len(sources) >= 1

\* C8: for a seed count N the colours of the labels 0 .. N-1 are pairwise
\* different and lie in [0, 255].
C8_ColoursDistinct ==
    pc = "colour" =>
        /\ cval[1] >= 0
        /\ cval[1] <= MaxColour * cval[2]
        /\ \A j \in 0 .. cn - 1 : j # ci => Colour(cn, j) # cval

C8_Witness ==
    /\ pc = "colour"
    /\ cn > MaxColour
    /\ ci = cn - 1

\* C9: a KDTree pass leaves the cell with the colour of a seed at the least
\* L1 distance, whatever subtrees the query left unvisited.
C9_PruningSound ==
    (~use_brute /\ Len(sources) >= 1) =>
        \A loc \in Settled :
            \E i \in Nearest(sources, loc) : im2[loc] = Colour(Len(sources), i)

C9_Witness ==
    /\ ~use_brute
    /\ pc = "kdloop"
    /\ \E loc \in Settled :
          /\ QueryRun(sources_kd, sources, loc).pruned
          /\ Cardinality({ sources[i + 1] : i \in Labels }) >= 2
          /\ \E i \in Nearest(sources, loc) : im2[loc] = Colour(Len(sources), i)

\* The labels below a node, and the shape C10 asks of a node at a depth.
RECURSIVE LabelsBelow(_)
LabelsBelow(node) ==
    IF node.leaf THEN Range(node.idx)
    ELSE LabelsBelow(node.less) \cup LabelsBelow(node.greater)

RECURSIVE CountBelow(_)
CountBelow(node) ==
    IF node.leaf THEN Len(node.idx)
    ELSE CountBelow(node.less) + CountBelow(node.greater)

RECURSIVE Partitioned(_, _)
Partitioned(srcs, node) ==
    \/ node.leaf
    \/ /\ ~node.leaf
       /\ LabelsBelow(node.less) # {}
       /\ LabelsBelow(node.greater) # {}
       /\ \A i \in LabelsBelow(node.less) :
             Coord(srcs, i, node.split_dim) <= node.split
       /\ \A i \in LabelsBelow(node.greater) :
             Coord(srcs, i, node.split_dim) >= node.split
       /\ Partitioned(srcs, node.less)
       /\ Partitioned(srcs, node.greater)

RECURSIVE AlternatingStrict(_, _, _)
AlternatingStrict(srcs, node, depth) ==
    \/ node.leaf
    \/ /\ ~node.leaf
       /\ node.split_dim = depth % 2
       /\ \A i \in LabelsBelow(node.less) :
             Coord(srcs, i, node.split_dim) <= node.split
       /\ \A i \in LabelsBelow(node.greater) :
             Coord(srcs, i, node.split_dim) > node.split
       /\ AlternatingStrict(srcs, node.less, depth + 1)
       /\ AlternatingStrict(srcs, node.greater, depth + 1)

EverySeedOnce(srcs, tree) ==
    /\ LabelsBelow(tree) = 0 .. Len(srcs) - 1
    /\ CountBelow(tree) = Len(srcs)

C10_TreeInv ==
    sources_kd.built =>
        /\ EverySeedOnce(sources, sources_kd.tree)
        /\ Partitioned(sources, sources_kd.tree)

====
